---------------------------- MODULE Spec2Model ----------------------------
(***************************************************************************)
(* Model of the masked-email bot's credential lifecycle (the sqlite        *)
(* adapter and its oauth2 token source) and of the Telegram dispatch loop. *)
(*                                                                         *)
(* Time is counted in units of ten seconds, so that oauth2's early-expiry  *)
(* margin (defaultExpiryDelta = 10 s) is one unit.                         *)
(***************************************************************************)
EXTENDS Integers, Sequences, FiniteSets, TLC

(***************************************************************************)
(* Bounds of the model.                                                    *)
(***************************************************************************)
MaxClock == 2
\* updates Telegram delivers before the receiver is stopped
MaxEvents == 2

\* two identities (the bound one and another) and two concurrent callers
Ids == {1, 2}
Callers == {1, 2}
\* the state nonces and code verifiers of the OAuth2 flows
States == {"s1", "s2"}
Verifiers == {"v1", "v2"}

(***************************************************************************)
(* Values.                                                                 *)
(***************************************************************************)
Nil == "nil"                    \* a nil error
NilToken == [nil |-> TRUE]      \* a nil *oauth2.Token
NilUser == [nil |-> TRUE]       \* a nil *domain.User
NoRow == [absent |-> TRUE]      \* no row of table users for the identity
NULL == [null |-> TRUE]         \* column fastmail_token IS NULL
Corrupt == [corrupt |-> TRUE]   \* a string json.Unmarshal rejects

ErrNoUser == "domain.ErrNoUser"
ErrSqliteInternal == "domain.ErrSqliteInternal"
ErrMarshal == "json: error calling MarshalJSON for type time.Time"
\* the errors the base token source can return
UpstreamErrs == {"oauth2: invalid_grant", "net: timeout"}

\* time.Time{} : Token.expired() treats a zero Expiry as "never expires"
ZeroTime == 0
\* oauth2.defaultExpiryDelta, in model time units
ExpiryDelta == 1
\* latest expiry time.Time.MarshalJSON accepts (year 9999), in model time
MaxJSONExpiry == MaxClock
Expiries == ZeroTime..(MaxJSONExpiry + 1)
AccessTokens == {"", "a"}

\* *oauth2.Token as the base token source hands it out; raw is the unexported
\* field holding the provider's response values (1), nil (0) after decoding
Tokens == [AccessToken : AccessTokens, Expiry : Expiries, raw : {1}]

(***************************************************************************)
(* encoding/json on *oauth2.Token.  The encoded form holds the exported    *)
(* fields only.                                                            *)
(***************************************************************************)
MarshalOK(t) == t.Expiry <= MaxJSONExpiry

Marshal(t) == [access_token |-> t.AccessToken, expiry |-> t.Expiry]

UnmarshalOK(s) == s # Corrupt

Unmarshal(s) == [AccessToken |-> s.access_token, Expiry |-> s.expiry, raw |-> 0]

\* every string the program itself passes to UpdateToken
Encoded == {Marshal(t) : t \in {u \in Tokens : MarshalOK(u)}}

(***************************************************************************)
(* oauth2.Token.Valid, evaluated at time now.                              *)
(***************************************************************************)
Expired(t, now) ==
    IF t.Expiry = ZeroTime THEN FALSE ELSE t.Expiry - ExpiryDelta < now

\* a zero Expiry taken for an expired one
ValidZeroExpired(t, now) ==
    t # NilToken /\ t.AccessToken # "" /\ ~(t.Expiry - ExpiryDelta < now)

Valid(t, now) == t # NilToken /\ t.AccessToken # "" /\ ~Expired(t, now)

(***************************************************************************)
(* State.                                                                  *)
(***************************************************************************)
VARIABLES
    users,      \* table users: identity -> NoRow or [lang, token]
    clock,      \* wall clock
    call,       \* per caller: the Token() call in progress
    updates,    \* the updates channel: the updates buffered in it
    chClosed,   \* the updates channel has been closed
    stopReq,    \* bot.shutdownChannel has been closed
    nSent,      \* updates put on the channel so far
    loop,       \* ListenAndServe: "recv", "handler" or "returned"
    cur,        \* the handler invocation in progress
    hist,       \* per update drawn: the case taken, the handler, its result
    logged,     \* d.logger.Error calls
    nRows,      \* table users: the rows held per identity
    oauth2States, \* table oauth2_states: state -> NoRow or [code_verifier, telegram_id]
    last,       \* the latest direct call of an adapter method and its result
    sent        \* the updates put on the channel so far, in order

apiVars == <<nRows, oauth2States, last>>
storeVars == <<users, clock, call, nRows, oauth2States, last>>
routerVars == <<updates, chClosed, stopReq, nSent, loop, cur, hist, logged,
                sent>>
vars == <<users, clock, call, updates, chClosed, stopReq, nSent, loop, cur,
          hist, logged, nRows, oauth2States, last, sent>>

(***************************************************************************)
(* The adapter's statements as functions of the table.                     *)
(***************************************************************************)
ErrorsIs(err, target) == err = target

\* row.Scan's error: a driver failure, sql.ErrNoRows for an empty result
ScanErr(db, telegramID, fault) ==
    IF fault THEN "sqlite3.Error"
    ELSE IF db[telegramID] = NoRow THEN "sql.ErrNoRows" ELSE Nil

GetUser(db, telegramID, fault) ==
    LET err == ScanErr(db, telegramID, fault) IN
    IF err # Nil
    THEN IF ErrorsIs(err, "sqlite3.ErrNotFound")
         THEN [user |-> NilUser, err |-> ErrNoUser]
         ELSE [user |-> NilUser, err |-> ErrSqliteInternal]
    ELSE LET row == db[telegramID] IN
         IF row.token # NULL /\ ~UnmarshalOK(row.token)
         THEN [user |-> NilUser, err |-> ErrSqliteInternal]
         ELSE [user |-> [TelegramID |-> telegramID,
                         FastmailToken |->
                             IF row.token = NULL THEN NilToken
                             ELSE Unmarshal(row.token),
                         LanguageCode |-> row.lang],
               err |-> Nil]

\* the UPDATE matching no row
UpdateTokenDBNoMatch(db, telegramID, fastmailToken) == db

\* the UPDATE writing only a column that is still NULL
UpdateTokenDBFirstWins(db, telegramID, fastmailToken) ==
    IF db[telegramID] = NoRow \/ db[telegramID].token # NULL THEN db
    ELSE [db EXCEPT ![telegramID].token = fastmailToken]

\* the UPDATE without its WHERE clause
UpdateTokenDBAllRows(db, telegramID, fastmailToken) ==
    [i \in DOMAIN db |->
        IF db[i] = NoRow THEN db[i]
        ELSE [db[i] EXCEPT !.token = fastmailToken]]

\* the UPDATE inserting the row it does not find
UpdateTokenDBUpsert(db, telegramID, fastmailToken) ==
    IF db[telegramID] = NoRow
    THEN [db EXCEPT ![telegramID] = [lang |-> "en", token |-> fastmailToken]]
    ELSE [db EXCEPT ![telegramID].token = fastmailToken]

\* UPDATE users SET fastmail_token = ? WHERE telegram_id = ?
UpdateTokenDB(db, telegramID, fastmailToken) ==
    IF db[telegramID] = NoRow THEN db
    ELSE [db EXCEPT ![telegramID].token = fastmailToken]

UpdateTokenErr(fault) == IF fault THEN ErrSqliteInternal ELSE Nil

(***************************************************************************)
(* A Token() call in progress.  pc, id, tok, retTok and retErr are the     *)
(* call's own state; the other fields record what the call's collaborators *)
(* answered and how often they were called.                                *)
(***************************************************************************)
IdleCall ==
    [pc |-> "idle", id |-> 0, tok |-> NilToken,
     retTok |-> NilToken, retErr |-> Nil, src |-> "none",
     getErr |-> "none", baseErr |-> "none", updErr |-> "none",
     nRefresh |-> 0, nWrite |-> 0]

\* the tables a restart can find in the database file
DefaultLang(i) == IF i = 1 THEN "en" ELSE "ru"

Rows(i) ==
    {NoRow} \cup {[lang |-> DefaultLang(i), token |-> s] :
                    s \in {NULL, Corrupt} \cup Encoded}

NoHandler == "none"
NoCall == [handler |-> NoHandler]

\* ListenAndServe has made the channel (lines 38-40) and waits on it
InitRouter ==
    /\ updates = <<>>
    /\ chClosed = FALSE
    /\ stopReq = FALSE
    /\ nSent = 0
    /\ loop = "recv"
    /\ cur = NoCall
    /\ hist = <<>>
    /\ logged = <<>>
    /\ sent = <<>>

\* no adapter method has been called directly yet
NoResult == [op |-> "none"]

\* table oauth2_states is empty and the rows of table users are counted
InitApi ==
    /\ nRows = [i \in Ids |-> IF users[i] = NoRow THEN 0 ELSE 1]
    /\ oauth2States = [s \in States |-> NoRow]
    /\ last = NoResult

Init ==
    /\ users \in {u \in [Ids -> UNION {Rows(i) : i \in Ids}] :
                    \A i \in Ids : u[i] \in Rows(i)}
    /\ clock = 1
    /\ call = [p \in Callers |-> IdleCall]
    /\ InitRouter
    /\ InitApi

Tick ==
    /\ clock < MaxClock
    /\ clock' = clock + 1
    /\ UNCHANGED <<users, call, routerVars, apiVars>>

(***************************************************************************)
(* tokenSource.Token, in the three stretches between which another         *)
(* goroutine can run: the read of the user, the call of the base token     *)
(* source, and the write of the refreshed token.                           *)
(***************************************************************************)

\* the stored token handed out without the validity check
AfterGetUserNoValidCheck(c, r, now) ==
    IF r.err # Nil
    THEN [c EXCEPT !.pc = "done", !.retErr = r.err]
    ELSE IF r.user.FastmailToken # NilToken
         THEN [c EXCEPT !.pc = "done", !.retTok = r.user.FastmailToken,
                        !.src = "stored"]
         ELSE [c EXCEPT !.pc = "refresh"]

\* GetUser's error not checked: the call goes on to refresh
AfterGetUserIgnoreErr(c, r, now) ==
    IF r.err = Nil /\ Valid(r.user.FastmailToken, now)
    THEN [c EXCEPT !.pc = "done", !.retTok = r.user.FastmailToken,
                   !.src = "stored"]
    ELSE [c EXCEPT !.pc = "refresh"]

\* lines 190-197: GetUser, then the stored token if it is valid
AfterGetUser(c, r, now) ==
    IF r.err # Nil
    THEN [c EXCEPT !.pc = "done", !.retErr = r.err]
    ELSE IF Valid(r.user.FastmailToken, now)
         THEN [c EXCEPT !.pc = "done", !.retTok = r.user.FastmailToken,
                        !.src = "stored"]
         ELSE [c EXCEPT !.pc = "refresh"]

TokenGetUser(p, id, fault) ==
    LET r == GetUser(users, id, fault) IN
    /\ call[p].pc = "idle"
    /\ call' = [call EXCEPT ![p] =
            [AfterGetUser([IdleCall EXCEPT !.id = id], r, clock)
                EXCEPT !.getErr = r.err]]
    /\ UNCHANGED <<users, clock, routerVars, apiVars>>

\* the base token source's error replaced by the adapter's own
AfterBaseTokenWrapErr(c, err, t) ==
    IF err # Nil
    THEN [c EXCEPT !.pc = "done", !.retErr = ErrSqliteInternal]
    ELSE IF ~MarshalOK(t)
         THEN [c EXCEPT !.pc = "done", !.retErr = ErrMarshal]
         ELSE [c EXCEPT !.pc = "persist", !.tok = t]

\* lines 199-207: the base token source, then json.Marshal
AfterBaseToken(c, err, t) ==
    IF err # Nil
    THEN [c EXCEPT !.pc = "done", !.retErr = err]
    ELSE IF ~MarshalOK(t)
         THEN [c EXCEPT !.pc = "done", !.retErr = ErrMarshal]
         ELSE [c EXCEPT !.pc = "persist", !.tok = t]

TokenRefresh(p, err, t) ==
    /\ call[p].pc = "refresh"
    /\ (err # Nil) <=> (t = NilToken)
    /\ call' = [call EXCEPT ![p] =
            [AfterBaseToken(call[p], err, t)
                EXCEPT !.baseErr = err, !.nRefresh = @ + 1]]
    /\ UNCHANGED <<users, clock, routerVars, apiVars>>

\* UpdateToken's error logged but not returned
AfterUpdateTokenIgnoreErr(c, err) ==
    [c EXCEPT !.pc = "done", !.retTok = c.tok, !.src = "refresh"]

\* lines 209-213: UpdateToken, then the refreshed token
AfterUpdateToken(c, err) ==
    IF err # Nil
    THEN [c EXCEPT !.pc = "done", !.tok = NilToken, !.retErr = err]
    ELSE [c EXCEPT !.pc = "done", !.retTok = c.tok, !.src = "refresh"]

TokenPersist(p, fault) ==
    /\ call[p].pc = "persist"
    /\ users' = IF fault THEN users
                ELSE UpdateTokenDB(users, call[p].id, Marshal(call[p].tok))
    /\ call' = [call EXCEPT ![p] =
            [AfterUpdateToken(call[p], UpdateTokenErr(fault))
                EXCEPT !.updErr = UpdateTokenErr(fault), !.nWrite = @ + 1]]
    /\ UNCHANGED <<clock, routerVars, apiVars>>

\* the caller takes the result; its next Token() call may begin
TokenReturn(p) ==
    /\ call[p].pc = "done"
    /\ call' = [call EXCEPT ![p] = IdleCall]
    /\ UNCHANGED <<users, clock, routerVars, apiVars>>

NextToken ==
    \/ Tick
    \/ \E p \in Callers, id \in Ids, fault \in BOOLEAN : TokenGetUser(p, id, fault)
    \/ \E p \in Callers, err \in {Nil} \cup UpstreamErrs,
          t \in Tokens \cup {NilToken} : TokenRefresh(p, err, t)
    \/ \E p \in Callers, fault \in BOOLEAN : TokenPersist(p, fault)
    \/ \E p \in Callers : TokenReturn(p)

SpecToken == Init /\ [][NextToken]_vars

(***************************************************************************)
(* The adapter's methods called directly (the handlers do), one statement  *)
(* each.  last records the call and what it returned.                      *)
(***************************************************************************)
ErrSqliteUserAlreadyExists == "domain.ErrSqliteUserAlreadyExists"
ErrNoState == "domain.ErrNoState"
NilState == [nil |-> TRUE]      \* a nil *domain.OAuth2State

\* sqlite3.Error.ExtendedCode of SQLITE_CONSTRAINT_PRIMARYKEY
SqliteConstraintPrimaryKey == 1555
\* the extended code of a failure that is no constraint violation
SqliteIOErr == 10

Langs == {"en", "ru"}

\* the strings the handlers pass to UpdateToken: an encoded token, or one
\* that does not decode
DirectTokens ==
    {Corrupt} \cup {s \in Encoded : s.expiry = ZeroTime /\ s.access_token # ""}

ExecOK == [err |-> Nil]
ExecFailed(code) == [err |-> "sqlite3.Error", ExtendedCode |-> code]

\* the driver's answer to INSERT INTO users: telegram_id is the primary key
\* of table users
InsertUserResult(db, telegramID, fault) ==
    IF fault THEN ExecFailed(SqliteIOErr)
    ELSE IF db[telegramID] # NoRow THEN ExecFailed(SqliteConstraintPrimaryKey)
    ELSE ExecOK

\* INSERT INTO users (telegram_id, lang) VALUES (?, ?)
InsertUserDB(db, telegramID, languageCode) ==
    [db EXCEPT ![telegramID] = [lang |-> languageCode, token |-> NULL]]

\* the duplicate key looked for under SQLITE_CONSTRAINT_UNIQUE
CreateUserErrUnique(r) ==
    IF r.err # Nil /\ r.ExtendedCode = 2067
    THEN ErrSqliteUserAlreadyExists
    ELSE IF r.err # Nil THEN ErrSqliteInternal ELSE Nil

\* lines 62-71
CreateUserErr(r) ==
    IF r.err # Nil /\ r.ExtendedCode = SqliteConstraintPrimaryKey
    THEN ErrSqliteUserAlreadyExists
    ELSE IF r.err # Nil THEN ErrSqliteInternal ELSE Nil

CreateUser(telegramID, languageCode, fault) ==
    LET r == InsertUserResult(users, telegramID, fault) IN
    /\ users' = IF r.err = Nil
                THEN InsertUserDB(users, telegramID, languageCode)
                ELSE users
    /\ nRows' = IF r.err = Nil THEN [nRows EXCEPT ![telegramID] = @ + 1]
                ELSE nRows
    /\ last' = [op |-> "CreateUser", id |-> telegramID, err |-> CreateUserErr(r),
                fault |-> fault, existed |-> users[telegramID] # NoRow,
                changed |-> users' # users]
    /\ UNCHANGED <<clock, call, oauth2States, routerVars>>

\* lines 74-86
UpdateToken(telegramID, fastmailToken, fault) ==
    /\ users' = IF fault THEN users
                ELSE UpdateTokenDB(users, telegramID, fastmailToken)
    /\ last' = [op |-> "UpdateToken", id |-> telegramID,
                err |-> UpdateTokenErr(fault), fault |-> fault,
                existed |-> users[telegramID] # NoRow,
                changed |-> users' # users]
    /\ UNCHANGED <<clock, call, nRows, oauth2States, routerVars>>

\* UPDATE users SET lang = ? WHERE telegram_id = ?
UpdateLanguageCodeDB(db, telegramID, languageCode) ==
    IF db[telegramID] = NoRow THEN db
    ELSE [db EXCEPT ![telegramID].lang = languageCode]

UpdateLanguageCodeErr(fault) == IF fault THEN ErrSqliteInternal ELSE Nil

\* lines 88-100
UpdateLanguageCode(telegramID, languageCode, fault) ==
    /\ users' = IF fault THEN users
                ELSE UpdateLanguageCodeDB(users, telegramID, languageCode)
    /\ last' = [op |-> "UpdateLanguageCode", id |-> telegramID,
                err |-> UpdateLanguageCodeErr(fault), fault |-> fault,
                existed |-> users[telegramID] # NoRow,
                changed |-> users' # users]
    /\ UNCHANGED <<clock, call, nRows, oauth2States, routerVars>>

\* lines 102-131, called by a handler
GetUserCall(telegramID, fault) ==
    LET r == GetUser(users, telegramID, fault) IN
    /\ last' = [op |-> "GetUser", id |-> telegramID, err |-> r.err,
                fault |-> fault, existed |-> users[telegramID] # NoRow,
                changed |-> FALSE, row |-> users[telegramID], user |-> r.user]
    /\ UNCHANGED <<users, clock, call, nRows, oauth2States, routerVars>>

\* the database file is new
InitStore ==
    /\ users = [i \in Ids |-> NoRow]
    /\ clock = 1
    /\ call = [p \in Callers |-> IdleCall]
    /\ InitRouter
    /\ InitApi

NextStore ==
    \/ \E id \in Ids, lang \in Langs, fault \in BOOLEAN :
          CreateUser(id, lang, fault)
    \/ \E id \in Ids, s \in DirectTokens, fault \in BOOLEAN :
          UpdateToken(id, s, fault)
    \/ \E id \in Ids, lang \in Langs, fault \in BOOLEAN :
          UpdateLanguageCode(id, lang, fault)
    \/ \E id \in Ids, fault \in BOOLEAN : GetUserCall(id, fault)

SpecStore == InitStore /\ [][NextStore]_vars

\* the adapter's writes with one Token() caller running beside them
NextStoreToken ==
    \/ \E id \in Ids, lang \in Langs, fault \in BOOLEAN :
          CreateUser(id, lang, fault)
    \/ \E id \in Ids, s \in DirectTokens, fault \in BOOLEAN :
          UpdateToken(id, s, fault)
    \/ \E id \in Ids, lang \in Langs, fault \in BOOLEAN :
          UpdateLanguageCode(id, lang, fault)
    \/ \E id \in Ids, fault \in BOOLEAN : TokenGetUser(1, id, fault)
    \/ \E err \in {Nil} \cup UpstreamErrs, t \in Tokens \cup {NilToken} :
          TokenRefresh(1, err, t)
    \/ \E fault \in BOOLEAN : TokenPersist(1, fault)
    \/ TokenReturn(1)

SpecStoreToken == InitStore /\ [][NextStoreToken]_vars

(***************************************************************************)
(* Table oauth2_states.                                                    *)
(***************************************************************************)

\* the driver's answer to INSERT INTO oauth2_states: state is the primary
\* key of the table
InsertStateResult(db, state, fault) ==
    IF fault THEN ExecFailed(SqliteIOErr)
    ELSE IF db[state] # NoRow THEN ExecFailed(SqliteConstraintPrimaryKey)
    ELSE ExecOK

\* INSERT INTO oauth2_states (state, code_verifier, telegram_id)
InsertStateDB(db, state, codeVerifier, telegramID) ==
    [db EXCEPT ![state] = [code_verifier |-> codeVerifier,
                           telegram_id |-> telegramID]]

\* lines 140-143
CreateOAuth2StateErr(r) == IF r.err # Nil THEN ErrSqliteInternal ELSE Nil

\* lines 133-146
CreateOAuth2State(state, codeVerifier, telegramID, fault) ==
    LET r == InsertStateResult(oauth2States, state, fault) IN
    /\ oauth2States' =
          IF r.err = Nil
          THEN InsertStateDB(oauth2States, state, codeVerifier, telegramID)
          ELSE oauth2States
    /\ last' = [op |-> "CreateOAuth2State", state |-> state,
                codeVerifier |-> codeVerifier, id |-> telegramID,
                err |-> CreateOAuth2StateErr(r), fault |-> fault,
                existed |-> oauth2States[state] # NoRow]
    /\ UNCHANGED <<users, clock, call, nRows, routerVars>>

\* row.Scan's error for SELECT ... FROM oauth2_states
ScanStateErr(db, state, fault) ==
    IF fault THEN "sqlite3.Error"
    ELSE IF db[state] = NoRow THEN "sql.ErrNoRows" ELSE Nil

\* lines 148-169
GetOAuth2State(db, state, fault) ==
    LET err == ScanStateErr(db, state, fault) IN
    IF err # Nil
    THEN IF ErrorsIs(err, "sqlite3.ErrNotFound")
         THEN [state |-> NilState, err |-> ErrNoState]
         ELSE [state |-> NilState, err |-> ErrSqliteInternal]
    ELSE [state |-> [State |-> state,
                     CodeVerifier |-> db[state].code_verifier,
                     TelegramID |-> db[state].telegram_id],
          err |-> Nil]

GetOAuth2StateCall(state, fault) ==
    LET r == GetOAuth2State(oauth2States, state, fault) IN
    /\ last' = [op |-> "GetOAuth2State", state |-> state, err |-> r.err,
                fault |-> fault, existed |-> oauth2States[state] # NoRow,
                row |-> oauth2States[state], result |-> r.state]
    /\ UNCHANGED <<users, clock, call, nRows, oauth2States, routerVars>>

NextOAuth2 ==
    \/ \E state \in States, v \in Verifiers, id \in Ids, fault \in BOOLEAN :
          CreateOAuth2State(state, v, id, fault)
    \/ \E state \in States, fault \in BOOLEAN : GetOAuth2StateCall(state, fault)

SpecOAuth2 == InitStore /\ [][NextOAuth2]_vars

(***************************************************************************)
(* Telegram updates.  Strings the loop parses are sequences of characters. *)
(***************************************************************************)
NilMessage == [nil |-> TRUE]
NilCallbackQuery == [nil |-> TRUE]
NilInlineQuery == [nil |-> TRUE]

BotCommand == [Type |-> "bot_command", Offset |-> 0, Length |-> 0]

Msg(text, entities) == [Text |-> text, Entities |-> entities]

\* the messages Telegram delivers: each has a sender; Entities as parsed by
\* Telegram from Text
Messages ==
    { Msg(<<"/", "s", "t", "a", "r", "t">>,
          <<[BotCommand EXCEPT !.Length = 6]>>),
      Msg(<<"/", "s", "t", "a", "r", "t", "@", "b">>,
          <<[BotCommand EXCEPT !.Length = 8]>>),
      Msg(<<"/", "s", "t", "a", "r", "t", "s">>,
          <<[BotCommand EXCEPT !.Length = 7]>>),
      Msg(<<"/", "g", "o", " ", "x">>,
          <<[BotCommand EXCEPT !.Length = 3]>>),
      Msg(<<"x", " ", "/", "s", "t", "a", "r", "t">>,
          <<[BotCommand EXCEPT !.Offset = 2, !.Length = 6]>>),
      Msg(<<"a", ".", "b">>,
          <<[Type |-> "url", Offset |-> 0, Length |-> 3]>>),
      Msg(<<"s", "t", "a", "r", "t">>, <<>>) }

CallbackDatas ==
    { <<>>,
      <<"i", "d">>,
      <<"i", "d", ":", "7">>,
      <<"p", "r", "e", "f", "i", "x", ":", "a", ":", "b">>,
      <<"p", "r", "e", "f", "i", "x">>,
      <<"i", "d", "s", ":", "7">>,
      <<":", "i", "d">>,
      <<"x", ":", "p", "r", "e", "f", "i", "x">> }

Upd(m, c, i) == [Message |-> m, CallbackQuery |-> c, InlineQuery |-> i]

\* an update carries at most one of its optional fields; edited messages,
\* channel posts, polls, ... carry none of the three the loop looks at
Updates ==
    {Upd(m, NilCallbackQuery, NilInlineQuery) : m \in Messages}
    \cup {Upd(NilMessage, [Data |-> d], NilInlineQuery) : d \in CallbackDatas}
    \cup {Upd(NilMessage, NilCallbackQuery, [Query |-> "q"]),
          Upd(NilMessage, NilCallbackQuery, NilInlineQuery)}

(***************************************************************************)
(* strings.Index, strings.Split and tgbotapi's Message and Update methods. *)
(***************************************************************************)
\* strings.Index for a one-character separator, 1-based; 0 when absent
Index(str, sep) ==
    IF \E i \in 1..Len(str) : str[i] = sep
    THEN CHOOSE i \in 1..Len(str) :
            str[i] = sep /\ \A j \in 1..(i - 1) : str[j] # sep
    ELSE 0

RECURSIVE Split(_, _)
\* a separator that is never found: the string comes back whole
SplitNone(str, sep) == <<str>>

Split(str, sep) ==
    IF Index(str, sep) = 0 THEN <<str>>
    ELSE <<SubSeq(str, 1, Index(str, sep) - 1)>>
            \o Split(SubSeq(str, Index(str, sep) + 1, Len(str)), sep)

\* Message.IsCommand
IsCommand(m) ==
    IF Len(m.Entities) = 0 THEN FALSE
    ELSE m.Entities[1].Offset = 0 /\ m.Entities[1].Type = "bot_command"

\* Message.CommandWithAt: m.Text[1:entity.Length]
CommandWithAt(m) ==
    IF ~IsCommand(m) THEN <<>> ELSE SubSeq(m.Text, 2, m.Entities[1].Length)

\* Message.Command
Command(m) ==
    IF Index(CommandWithAt(m), "@") # 0
    THEN SubSeq(CommandWithAt(m), 1, Index(CommandWithAt(m), "@") - 1)
    ELSE CommandWithAt(m)

\* Update.CallbackData
CallbackData(update) ==
    IF update.CallbackQuery # NilCallbackQuery THEN update.CallbackQuery.Data
    ELSE <<>>

(***************************************************************************)
(* delivery.ListenAndServe: the switch of lines 43-81, as the case taken   *)
(* and the handler called for an update.                                   *)
(***************************************************************************)
Taken(c, h) == [case |-> c, handler |-> h]

\* the check of IsCommand left out: every message goes to the link handler
RouteNoCommands(update) ==
    IF update.Message # NilMessage
    THEN Taken("Message", "generateMaskedEmail")
    ELSE IF update.CallbackQuery # NilCallbackQuery
    THEN LET data == Split(CallbackData(update), ":") IN
         IF data[1] = <<"i", "d">>
         THEN Taken("CallbackQuery", "enableMaskedEmail")
         ELSE IF data[1] = <<"p", "r", "e", "f", "i", "x">>
         THEN Taken("CallbackQuery", "generateMaskedEmailWithInlineButton")
         ELSE Taken("CallbackQuery", NoHandler)
    ELSE IF update.InlineQuery # NilInlineQuery
    THEN Taken("InlineQuery", "answerInlineQueryWithEmail")
    ELSE Taken("none", NoHandler)

\* the case of the inline query left out
RouteNoInline(update) ==
    IF update.Message # NilMessage
    THEN IF IsCommand(update.Message)
         THEN IF Command(update.Message) = <<"s", "t", "a", "r", "t">>
              THEN Taken("Message", "startCommand")
              ELSE Taken("Message", "anyOtherCommand")
         ELSE Taken("Message", "generateMaskedEmail")
    ELSE IF update.CallbackQuery # NilCallbackQuery
    THEN LET data == Split(CallbackData(update), ":") IN
         IF data[1] = <<"i", "d">>
         THEN Taken("CallbackQuery", "enableMaskedEmail")
         ELSE IF data[1] = <<"p", "r", "e", "f", "i", "x">>
         THEN Taken("CallbackQuery", "generateMaskedEmailWithInlineButton")
         ELSE Taken("CallbackQuery", NoHandler)
    ELSE Taken("none", NoHandler)

Route(update) ==
    IF update.Message # NilMessage
    THEN IF IsCommand(update.Message)
         THEN IF Command(update.Message) = <<"s", "t", "a", "r", "t">>
              THEN Taken("Message", "startCommand")
              ELSE Taken("Message", "anyOtherCommand")
         ELSE Taken("Message", "generateMaskedEmail")
    ELSE IF update.CallbackQuery # NilCallbackQuery
    THEN LET data == Split(CallbackData(update), ":") IN
         IF data[1] = <<"i", "d">>
         THEN Taken("CallbackQuery", "enableMaskedEmail")
         ELSE IF data[1] = <<"p", "r", "e", "f", "i", "x">>
         THEN Taken("CallbackQuery", "generateMaskedEmailWithInlineButton")
         ELSE Taken("CallbackQuery", NoHandler)
    ELSE IF update.InlineQuery # NilInlineQuery
    THEN Taken("InlineQuery", "answerInlineQueryWithEmail")
    ELSE Taken("none", NoHandler)

\* the message of the d.logger.Error call that follows a handler
LogMessage(handler) ==
    CASE handler = "startCommand" -> "Error while handling command!"
      [] handler = "anyOtherCommand" -> "Error while handling command!"
      [] handler = "generateMaskedEmail" -> "Error while handling a link!"
      [] handler = "enableMaskedEmail" -> "Error while enabling a masked email!"
      [] handler = "generateMaskedEmailWithInlineButton" ->
            "Error while generating a masked email!"
      [] handler = "answerInlineQueryWithEmail" ->
            "Error while trying to answer inline query!"

HandlerErrs == {Nil, "handler error"}

\* a handler error ending the loop
AfterHandlerAbort(err) == IF err # Nil THEN "returned" ELSE "recv"

\* where the loop goes when a handler has returned: to the next receive
AfterHandler(err) == "recv"

Entry(update, taken, err) ==
    [update |-> update, case |-> taken.case, handler |-> taken.handler,
     err |-> err]

\* the receiver goroutine of GetUpdatesChan puts an update on the channel
Poll(update) ==
    /\ ~chClosed
    /\ nSent < MaxEvents
    /\ updates' = Append(updates, update)
    /\ nSent' = nSent + 1
    /\ sent' = Append(sent, update)
    /\ UNCHANGED <<storeVars, chClosed, stopReq, loop, cur, hist, logged>>

\* the handler started in a goroutine of its own: the loop draws on while
\* it runs
ReceiveAsync ==
    /\ loop \in {"recv", "handler"}
    /\ updates # <<>>
    /\ updates' = Tail(updates)
    /\ LET taken == Route(Head(updates)) IN
       IF taken.handler = NoHandler
       THEN /\ hist' = Append(hist, Entry(Head(updates), taken, "none"))
            /\ UNCHANGED <<loop, cur>>
       ELSE /\ loop' = "handler"
            /\ cur' = [handler |-> taken.handler, update |-> Head(updates),
                       case |-> taken.case]
            /\ UNCHANGED hist
    /\ UNCHANGED <<storeVars, chClosed, stopReq, nSent, logged, sent>>

\* line 42: the range loop draws the next update; lines 43-81 pick the
\* handler and call it, or pick none and go round
Receive ==
    /\ loop = "recv"
    /\ updates # <<>>
    /\ updates' = Tail(updates)
    /\ LET taken == Route(Head(updates)) IN
       IF taken.handler = NoHandler
       THEN /\ hist' = Append(hist, Entry(Head(updates), taken, "none"))
            /\ UNCHANGED <<loop, cur>>
       ELSE /\ loop' = "handler"
            /\ cur' = [handler |-> taken.handler, update |-> Head(updates),
                       case |-> taken.case]
            /\ UNCHANGED hist
    /\ UNCHANGED <<storeVars, chClosed, stopReq, nSent, logged, sent>>

\* the handler returns; its error, if any, is logged
HandlerReturn(err) ==
    /\ loop = "handler"
    /\ loop' = AfterHandler(err)
    /\ cur' = NoCall
    /\ hist' = Append(hist, Entry(cur.update, cur, err))
    /\ logged' = IF err # Nil
                 THEN Append(logged, [msg |-> LogMessage(cur.handler),
                                      err |-> err])
                 ELSE logged
    /\ UNCHANGED <<storeVars, updates, chClosed, stopReq, nSent, sent>>

\* lines 87-90: Shutdown closes bot.shutdownChannel
Shutdown ==
    /\ ~stopReq
    /\ stopReq' = TRUE
    /\ UNCHANGED <<storeVars, updates, chClosed, nSent, loop, cur, hist, logged,
                   sent>>

\* the receiver goroutine sees the closed shutdownChannel and closes the
\* updates channel
ReceiverStops ==
    /\ stopReq
    /\ ~chClosed
    /\ chClosed' = TRUE
    /\ UNCHANGED <<storeVars, updates, stopReq, nSent, loop, cur, hist, logged,
                   sent>>

\* the loop left as soon as the channel is closed, the buffered updates
\* dropped
LoopReturnsOnClose ==
    /\ loop = "recv"
    /\ chClosed
    /\ loop' = "returned"
    /\ UNCHANGED <<storeVars, updates, chClosed, stopReq, nSent, cur, hist, logged,
                   sent>>

\* the loop left when it finds the channel empty
LoopReturnsOnEmpty ==
    /\ loop = "recv"
    /\ updates = <<>>
    /\ loop' = "returned"
    /\ UNCHANGED <<storeVars, updates, chClosed, stopReq, nSent, cur, hist, logged,
                   sent>>

\* lines 82-84: the channel is closed and drained; ListenAndServe returns nil
LoopReturns ==
    /\ loop = "recv"
    /\ updates = <<>>
    /\ chClosed
    /\ loop' = "returned"
    /\ UNCHANGED <<storeVars, updates, chClosed, stopReq, nSent, cur, hist, logged,
                   sent>>

NextRouter ==
    \/ \E update \in Updates : Poll(update)
    \/ Receive
    \/ \E err \in HandlerErrs : HandlerReturn(err)
    \/ Shutdown
    \/ ReceiverStops
    \/ LoopReturns

\* the dispatch loop alone, over an empty table
InitLoop ==
    /\ users = [i \in Ids |-> NoRow]
    /\ clock = 1
    /\ call = [p \in Callers |-> IdleCall]
    /\ InitRouter
    /\ InitApi

SpecRouter == InitLoop /\ [][NextRouter]_vars

\* the receiver goroutine and the loop are scheduled, and every handler
\* call returns
SpecRouterFair ==
    /\ SpecRouter
    /\ WF_vars(Receive)
    /\ WF_vars(\E err \in HandlerErrs : HandlerReturn(err))
    /\ WF_vars(ReceiverStops)
    /\ WF_vars(LoopReturns)

(***************************************************************************)
(* Properties of tokenSource.Token.                                        *)
(*                                                                         *)
(* "Valid" below is oauth2's notion, written out: an access token is       *)
(* present and the expiry is zero (never expires) or at least the          *)
(* early-expiry margin ahead.                                              *)
(***************************************************************************)
StoredToken(i) == users[i].token

HasStoredToken(i) == users[i] # NoRow /\ StoredToken(i) \notin {NULL, Corrupt}

StoredValid(i) ==
    /\ HasStoredToken(i)
    /\ StoredToken(i).access_token # ""
    /\ \/ StoredToken(i).expiry = ZeroTime
       \/ StoredToken(i).expiry - ExpiryDelta >= clock

Finishes(p) == call[p].pc # "done" /\ call'[p].pc = "done"

\* C1: a credential Token() returns with success is either the stored
\* credential of the bound identity, valid when it was read, or the
\* credential the base token source returned during the same call; a stored
\* credential that is absent or expired is never returned.
C1_ReturnedIsValidStoredOrRefreshed ==
    [][\A p \in Callers :
        (Finishes(p) /\ call'[p].retErr = Nil) =>
            \/ /\ call[p].pc = "idle"
               /\ StoredValid(call'[p].id)
               /\ call'[p].retTok.AccessToken = StoredToken(call'[p].id).access_token
               /\ call'[p].retTok.Expiry = StoredToken(call'[p].id).expiry
               /\ call'[p].nRefresh = 0
            \/ /\ call[p].pc = "persist"
               /\ call[p].baseErr = Nil
               /\ call[p].tok \in Tokens
               /\ call'[p].retTok = call[p].tok]_vars

\* both ways of returning a credential have happened
C1_Witness ==
    \E p, q \in Callers :
        /\ call[p].pc = "done" /\ call[p].src = "stored"
        /\ call[q].pc = "done" /\ call[q].src = "refresh"

\* C2: when the stored credential is not valid (expired or absent), the
\* base token source succeeds and the store's GetUser and UpdateToken
\* succeed, the call has made exactly one call of the base token source and
\* exactly one UpdateToken, returns the refreshed credential, and that
\* credential, encoded, is what the row of the identity holds after the
\* write.  UpdateToken is made whenever the refreshed credential could be
\* encoded.
C2_RefreshOnceWriteOnce ==
    /\ [](\A p \in Callers :
            /\ (/\ call[p].pc = "done"
                /\ call[p].getErr = Nil
                /\ call[p].src # "stored"
                /\ call[p].baseErr = Nil
                /\ call[p].updErr = Nil)
               => /\ call[p].nRefresh = 1
                  /\ call[p].nWrite = 1
                  /\ call[p].retErr = Nil
                  /\ call[p].retTok \in Tokens
                  /\ call[p].retTok = call[p].tok
            /\ (/\ call[p].pc = "done"
                /\ call[p].baseErr = Nil
                /\ call[p].retErr # ErrMarshal)
               => call[p].nWrite = 1)
    /\ [][\A p \in Callers :
            (Finishes(p) /\ call'[p].updErr = Nil) =>
                /\ users'[call'[p].id] # NoRow
                /\ users'[call'[p].id].token = Marshal(call'[p].retTok)
                /\ Unmarshal(users'[call'[p].id].token).AccessToken
                        = call'[p].retTok.AccessToken
                /\ Unmarshal(users'[call'[p].id].token).Expiry
                        = call'[p].retTok.Expiry]_vars

\* a call refreshed an expired stored credential and one an absent one
C2_Witness ==
    \E p, q \in Callers :
        /\ call[p].pc = "done" /\ call[p].src = "refresh" /\ call[p].id = 1
        /\ call[q].pc = "done" /\ call[q].src = "refresh" /\ call[q].id = 2
        /\ users[1].token = Marshal(call[p].retTok)
        /\ users[2].token = Marshal(call[q].retTok)

C4_PersistFailureIsFailure ==
    \A p \in Callers :
        (/\ call[p].pc = "done"
         /\ call[p].baseErr = Nil
         /\ call[p].updErr \notin {"none", Nil})
        => /\ call[p].retErr = call[p].updErr
           /\ call[p].retTok = NilToken
           /\ call[p].src # "refresh"

C4_Witness ==
    \E p \in Callers :
        /\ call[p].pc = "done"
        /\ call[p].baseErr = Nil
        /\ call[p].nRefresh = 1
        /\ call[p].updErr = ErrSqliteInternal
        /\ call[p].retErr = ErrSqliteInternal

\* C5: if the base token source fails, Token() returns that failure and no
\* credential and makes no UpdateToken; no step of the call up to and
\* including the failed refresh changes the table.
C5_RefreshFailureLeavesStore ==
    /\ [](\A p \in Callers :
            (call[p].pc = "done" /\ call[p].baseErr \in UpstreamErrs)
            => /\ call[p].retErr = call[p].baseErr
               /\ call[p].retTok = NilToken
               /\ call[p].nRefresh = 1
               /\ call[p].nWrite = 0)
    /\ [][\A p \in Callers :
            (call[p].pc \in {"idle", "refresh"} /\ call'[p] # call[p])
            => users' = users]_vars

\* the refresh of an expired and of an absent stored credential has failed
C5_Witness ==
    \E p, q \in Callers :
        /\ call[p].pc = "done" /\ call[p].baseErr \in UpstreamErrs
        /\ HasStoredToken(call[p].id)
        /\ call[q].pc = "done" /\ call[q].baseErr \in UpstreamErrs
        /\ users[call[q].id] # NoRow /\ StoredToken(call[q].id) = NULL

\* C6: if GetUser fails, Token() returns the error GetUser returned and no
\* credential, and calls neither the base token source nor UpdateToken.
C6_GetUserFailurePropagates ==
    \A p \in Callers :
        (call[p].pc # "idle" /\ call[p].getErr # Nil)
        => /\ call[p].pc = "done"
           /\ call[p].retErr = call[p].getErr
           /\ call[p].retTok = NilToken
           /\ call[p].nRefresh = 0
           /\ call[p].nWrite = 0

\* GetUser has failed for an absent user and for a row it could not decode
C6_Witness ==
    \E p, q \in Callers :
        /\ call[p].pc = "done" /\ call[p].getErr = ErrSqliteInternal
        /\ users[call[p].id] = NoRow
        /\ call[q].pc = "done" /\ call[q].getErr = ErrSqliteInternal
        /\ users[call[q].id] # NoRow /\ StoredToken(call[q].id) = Corrupt

(***************************************************************************)
(* Properties of delivery.ListenAndServe.                                  *)
(***************************************************************************)
Last(seq) == seq[Len(seq)]

Failed(e) == e.err \notin {Nil, "none"}

\* the updates drawn so far, each once: handled, or in its handler
DrawnOnce ==
    Len(hist) + (IF loop = "handler" THEN 1 ELSE 0) + Len(updates) = nSent

\* C7: a handler's error is logged and the loop goes on to the next
\* receive: no handler error makes ListenAndServe return, every update put
\* on the channel has been through the loop when ListenAndServe returns,
\* and, the loop being scheduled and handlers returning, every update put
\* on the channel is eventually drawn and dispatched whatever the handlers
\* before it returned.
C7_HandlerErrorLoggedLoopContinues ==
    /\ [][(loop = "handler" /\ hist' # hist) =>
            /\ loop' = "recv"
            /\ hist' = Append(hist, Last(hist'))
            /\ IF Failed(Last(hist'))
               THEN logged' = Append(logged,
                        [msg |-> LogMessage(cur.handler),
                         err |-> Last(hist').err])
               ELSE logged' = logged]_vars
    /\ [](loop = "returned" => (Len(hist) = nSent /\ chClosed))
    /\ [](Len(logged) = Cardinality({i \in 1..Len(hist) : Failed(hist[i])}))
    /\ <>[](Len(hist) = nSent)

\* the first update's handler failed and the second update reached its
\* handler
C7_Witness ==
    /\ Len(hist) = 2
    /\ Failed(hist[1])
    /\ hist[2].handler # NoHandler
    /\ hist[2].err \in HandlerErrs
    /\ Len(logged) >= 1

\* the first colon-separated segment: the longest prefix without a colon
FirstSegment(d) ==
    LET k == CHOOSE n \in 0..Len(d) :
                /\ \A j \in 1..n : d[j] # ":"
                /\ n = Len(d) \/ d[n + 1] = ":"
    IN  SubSeq(d, 1, k)

\* C8: for a callback update the first colon-separated segment of the
\* callback data decides: "id" calls enableMaskedEmail once, "prefix" calls
\* generateMaskedEmailWithInlineButton once, anything else (the empty
\* string too) calls no handler and logs nothing.
C8_CallbackRouting ==
    /\ DrawnOnce
    /\ Len(logged) = Cardinality({i \in 1..Len(hist) : Failed(hist[i])})
    /\ \A i \in 1..Len(hist) :
        hist[i].update.CallbackQuery # NilCallbackQuery =>
            LET seg == FirstSegment(hist[i].update.CallbackQuery.Data) IN
            /\ seg = <<"i", "d">> =>
                    /\ hist[i].handler = "enableMaskedEmail"
                    /\ hist[i].err \in HandlerErrs
            /\ seg = <<"p", "r", "e", "f", "i", "x">> =>
                    /\ hist[i].handler = "generateMaskedEmailWithInlineButton"
                    /\ hist[i].err \in HandlerErrs
            /\ seg \notin {<<"i", "d">>, <<"p", "r", "e", "f", "i", "x">>} =>
                    /\ hist[i].handler = NoHandler
                    /\ hist[i].err = "none"

\* a callback with arguments after the discriminator was routed, and a
\* callback with empty data was ignored without a log entry
C8_Witness ==
    /\ Len(hist) = 2
    /\ hist[1].update.CallbackQuery # NilCallbackQuery
    /\ hist[1].update.CallbackQuery.Data = <<"i", "d", ":", "7">>
    /\ hist[1].handler = "enableMaskedEmail"
    /\ hist[1].err = Nil
    /\ hist[2].update.CallbackQuery # NilCallbackQuery
    /\ hist[2].update.CallbackQuery.Data = <<>>
    /\ hist[2].handler = NoHandler
    /\ logged = <<>>

\* the classifications of the dispatch that apply to a handled update
Classes(e) ==
    (IF e.handler \in {"startCommand", "anyOtherCommand"}
        THEN {"command"} ELSE {})
    \cup (IF e.handler = "generateMaskedEmail" THEN {"free text"} ELSE {})
    \cup (IF e.case = "CallbackQuery" THEN {"callback action"} ELSE {})
    \cup (IF e.handler = "answerInlineQueryWithEmail"
        THEN {"inline query"} ELSE {})

CarriesNone(update) ==
    /\ update.Message = NilMessage
    /\ update.CallbackQuery = NilCallbackQuery
    /\ update.InlineQuery = NilInlineQuery

\* C9 as claimed: exactly one of the four classifications applies to every
\* update drawn.
C9_ExactlyOneClass ==
    \A i \in 1..Len(hist) : Cardinality(Classes(hist[i])) = 1

\* C9: at most one of the four classifications applies to an update drawn:
\* exactly one, that of the field it carries, when it carries a message, a
\* callback query or an inline query; none when it carries none of them,
\* and then no handler is called and nothing is logged.
C9_AtMostOneClass ==
    \A i \in 1..Len(hist) :
        LET e == hist[i] IN
        /\ Cardinality(Classes(e)) <= 1
        /\ e.update.Message # NilMessage =>
                /\ Classes(e) \subseteq {"command", "free text"}
                /\ Classes(e) # {}
        /\ e.update.CallbackQuery # NilCallbackQuery =>
                Classes(e) = {"callback action"}
        /\ e.update.InlineQuery # NilInlineQuery =>
                Classes(e) = {"inline query"}
        /\ CarriesNone(e.update) =>
                /\ Classes(e) = {}
                /\ e.handler = NoHandler
                /\ e.err = "none"

\* an update carrying none of the three fields went through the loop
\* unclassified, after a classified one
C9_Witness ==
    /\ Len(hist) = 2
    /\ Classes(hist[1]) = {"inline query"}
    /\ CarriesNone(hist[2].update)
    /\ Classes(hist[2]) = {}
    /\ logged = <<>>

\* C10: for an update carrying a message exactly one handler is called:
\* startCommand when the message is the command "start", anyOtherCommand
\* when it is any other command, generateMaskedEmail when and only when it
\* is not a command.
C10_MessageRouting ==
    /\ DrawnOnce
    /\ \A i \in 1..Len(hist) :
        LET e == hist[i]
            m == hist[i].update.Message
        IN  m # NilMessage =>
            /\ e.err \in HandlerErrs
            /\ e.handler \in {"startCommand", "anyOtherCommand",
                              "generateMaskedEmail"}
            /\ e.handler = "startCommand" <=>
                    (IsCommand(m) /\ Command(m) = <<"s", "t", "a", "r", "t">>)
            /\ e.handler = "anyOtherCommand" <=>
                    (IsCommand(m) /\ Command(m) # <<"s", "t", "a", "r", "t">>)
            /\ e.handler = "generateMaskedEmail" <=> ~IsCommand(m)

\* "/start@b" reached startCommand and "/starts" the fallback handler
C10_Witness ==
    /\ Len(hist) = 2
    /\ hist[1].update.Message # NilMessage
    /\ hist[1].update.Message.Text = <<"/", "s", "t", "a", "r", "t", "@", "b">>
    /\ hist[1].handler = "startCommand"
    /\ hist[2].update.Message # NilMessage
    /\ hist[2].update.Message.Text = <<"/", "s", "t", "a", "r", "t", "s">>
    /\ hist[2].handler = "anyOtherCommand"


(***************************************************************************)
(* Properties of the adapter's methods called directly.                    *)
(***************************************************************************)

\* what GetUser hands out for a row whose token column decodes
StoredUser(telegramID, row) ==
    [TelegramID |-> telegramID,
     FastmailToken |-> IF row.token = NULL THEN NilToken
                       ELSE Unmarshal(row.token),
     LanguageCode |-> row.lang]

Decodes(row) == row.token = NULL \/ UnmarshalOK(row.token)

\* C11: whatever adapter methods have been called, table users holds at
\* most one row per identity; a CreateUser for an identity that has a row
\* returns ErrSqliteUserAlreadyExists (the driver not failing otherwise) and
\* changes nothing in the table, and a CreateUser returns nil only when it
\* has inserted the row of an identity that had none.
C11_OneRowPerIdentity ==
    /\ \A i \in Ids : nRows[i] <= 1 /\ (nRows[i] = 1 <=> users[i] # NoRow)
    /\ last.op = "CreateUser" =>
          /\ (last.existed /\ ~last.fault) =>
                (last.err = ErrSqliteUserAlreadyExists /\ ~last.changed)
          /\ last.err = Nil => (~last.existed /\ last.changed)
          /\ last.err # Nil => ~last.changed

C11_Witness ==
    /\ last.op = "CreateUser"
    /\ last.existed
    /\ ~last.fault
    /\ last.err = ErrSqliteUserAlreadyExists
    /\ users[last.id].token # NULL
    /\ users[last.id].lang = "ru"

\* C12: GetUser returns the stored user when the identity has a row,
\* ErrNoUser when it has none, and ErrSqliteInternal for a failing driver or
\* a token column that does not decode; an identity without a row is never
\* answered ErrSqliteInternal while the driver works.
C12_GetUserResult ==
    last.op = "GetUser" =>
       /\ (~last.fault /\ last.existed /\ Decodes(last.row)) =>
             (last.err = Nil /\ last.user = StoredUser(last.id, last.row))
       /\ (~last.fault /\ ~last.existed) =>
             (last.err = ErrNoUser /\ last.user = NilUser)
       /\ (last.fault \/ (last.existed /\ ~Decodes(last.row))) =>
             (last.err = ErrSqliteInternal /\ last.user = NilUser)

\* C13: once CreateOAuth2State(state, verifier, id) has returned nil, the
\* row of state holds that verifier and id and no later call changes or
\* removes it; GetOAuth2State answers a state that has a row with exactly
\* its state, verifier and id, and a state that has none with ErrNoState
\* (the driver not failing).
C13_StateRoundTrip ==
    /\ [][\A s \in States :
            /\ oauth2States[s] # NoRow => oauth2States'[s] = oauth2States[s]
            /\ (oauth2States[s] = NoRow /\ oauth2States'[s] # NoRow) =>
                  /\ last'.op = "CreateOAuth2State"
                  /\ last'.state = s
                  /\ last'.err = Nil
                  /\ oauth2States'[s] = [code_verifier |-> last'.codeVerifier,
                                         telegram_id |-> last'.id]]_vars
    /\ [](last.op = "CreateOAuth2State" =>
            (last.err = Nil <=> (~last.existed /\ ~last.fault)))
    /\ []((last.op = "GetOAuth2State" /\ ~last.fault) =>
            IF last.existed
            THEN /\ last.err = Nil
                 /\ last.result = [State |-> last.state,
                                   CodeVerifier |-> last.row.code_verifier,
                                   TelegramID |-> last.row.telegram_id]
            ELSE last.err = ErrNoState /\ last.result = NilState)

\* C20: UpdateToken and UpdateLanguageCode for an identity without a row
\* return nil (the driver not failing) and change nothing in table users;
\* a row comes into being only by a CreateUser that returns nil, so no step
\* of a Token() call creates one.
C20_NoRowNoEffect ==
    /\ []((last.op \in {"UpdateToken", "UpdateLanguageCode"} /\ ~last.existed)
            => (~last.changed /\ (last.err = Nil <=> ~last.fault)))
    /\ [][\A i \in Ids :
            (users[i] = NoRow /\ users'[i] # NoRow) =>
               /\ last'.op = "CreateUser"
               /\ last'.id = i
               /\ last'.err = Nil
               /\ call' = call]_vars

C20_Witness ==
    /\ last.op \in {"UpdateToken", "UpdateLanguageCode"}
    /\ ~last.existed
    /\ last.err = Nil
    /\ users[last.id] = NoRow
    /\ call[1].pc = "done"
    /\ call[1].id = last.id
    /\ \E j \in Ids : users[j] # NoRow /\ users[j].token # NULL

(***************************************************************************)
(* Properties of Token() calls running side by side.                       *)
(***************************************************************************)

\* caller p's UpdateToken returns nil in this step
Writes(p) ==
    /\ call[p].pc = "persist"
    /\ call'[p].pc = "done"
    /\ call'[p].updErr = Nil

\* the step a call in progress can take next
StepOf(p) ==
    \/ \E err \in {Nil} \cup UpstreamErrs, t \in Tokens \cup {NilToken} :
          TokenRefresh(p, err, t)
    \/ \E fault \in BOOLEAN : TokenPersist(p, fault)
    \/ TokenReturn(p)

\* C14: Token() calls for one identity may overlap and each call the base
\* token source.  Every change of a row is the UpdateToken of one of the
\* calls writing the credential that call obtained, and each UpdateToken
\* that returns nil replaces whatever the row's token column held, so the
\* row holds what the UpdateToken executed last wrote; when two calls that
\* refreshed have both finished the row holds the credential of one of
\* them.  A call in progress can always take its next step, whatever the
\* other call is doing.
C14_LastWriterWins ==
    /\ [][\A i \in Ids :
            users'[i] # users[i] =>
               \E p \in Callers :
                  /\ Writes(p)
                  /\ call[p].id = i
                  /\ users[i] # NoRow
                  /\ users'[i] = [users[i] EXCEPT
                                     !.token = Marshal(call[p].tok)]]_vars
    /\ [][\A p \in Callers :
            Writes(p) =>
               users'[call[p].id].token = Marshal(call[p].tok)]_vars
    /\ [](\A p, q \in Callers :
            (/\ p # q
             /\ call[p].pc = "done" /\ call[p].src = "refresh"
             /\ call[q].pc = "done" /\ call[q].src = "refresh"
             /\ call[p].id = call[q].id) =>
                StoredToken(call[p].id) \in
                    {Marshal(call[p].retTok), Marshal(call[q].retTok)})
    /\ [](\A p \in Callers : call[p].pc # "idle" => ENABLED StepOf(p))

\* both calls refreshed and wrote; q read the row before p's write (p's
\* credential is still valid, so a read after it would not have refreshed)
\* and wrote after it
C14_Witness ==
    \E p, q \in Callers :
        /\ p # q
        /\ call[p].pc = "done" /\ call[p].src = "refresh"
        /\ call[q].pc = "done" /\ call[q].src = "refresh"
        /\ call[p].id = call[q].id
        /\ Valid(call[p].retTok, clock)
        /\ StoredToken(call[p].id) = Marshal(call[q].retTok)
        /\ StoredToken(call[p].id) # Marshal(call[p].retTok)

\* the identity a call is bound to
Bound(p) == IF call[p].pc = "idle" THEN call'[p].id ELSE call[p].id

\* C15: a step of a Token() call bound to identity A leaves the row of
\* every other identity as it was and leaves A's language as it was; the
\* credential the call returns is, encoded, what A's row holds when the
\* call's last statement has run - read from A's row or written to it -
\* and so is B's stored credential only where B's row holds the same
\* string.
C15_OnlyBoundRow ==
    [][\A p \in Callers :
        call'[p] # call[p] =>
           /\ \A b \in Ids \ {Bound(p)} : users'[b] = users[b]
           /\ users[Bound(p)] = NoRow => users'[Bound(p)] = NoRow
           /\ users[Bound(p)] # NoRow =>
                 /\ users'[Bound(p)] # NoRow
                 /\ users'[Bound(p)].lang = users[Bound(p)].lang
           /\ (Finishes(p) /\ call'[p].retErr = Nil) =>
                 /\ users'[Bound(p)] # NoRow
                 /\ Marshal(call'[p].retTok) = users'[Bound(p)].token
                 /\ call[p].pc = "idle" =>
                       call'[p].retTok = Unmarshal(users[Bound(p)].token)]_vars

C15_Witness ==
    \E p \in Callers, b \in Ids :
        /\ call[p].pc = "done"
        /\ call[p].src = "refresh"
        /\ call[p].retErr = Nil
        /\ b # call[p].id
        /\ HasStoredToken(b)
        /\ StoredToken(b) # StoredToken(call[p].id)

\* C19 as stated: while a call holds a credential it is about to return,
\* that credential is the one stored for the bound identity.
C19_ReturnedIsStoredAtReturn ==
    \A p \in Callers :
        (call[p].pc = "done" /\ call[p].retErr = Nil) =>
            /\ users[call[p].id] # NoRow
            /\ StoredToken(call[p].id) = Marshal(call[p].retTok)

\* C19: the credential a call returns with success is the credential
\* stored for the bound identity when the call's last statement on the
\* store has run (the GetUser that read it, or the UpdateToken that wrote
\* it); between that statement and the return only the UpdateToken of
\* another call for the same identity makes the row hold something else.
C19_ReturnedWasStored ==
    /\ [][\A p \in Callers :
            (Finishes(p) /\ call'[p].retErr = Nil) =>
               /\ users'[call'[p].id] # NoRow
               /\ users'[call'[p].id].token = Marshal(call'[p].retTok)]_vars
    /\ [][\A p \in Callers :
            (/\ call[p].pc = "done" /\ call[p].retErr = Nil
             /\ call'[p] = call[p]
             /\ StoredToken(call[p].id) = Marshal(call[p].retTok)
             /\ users'[call[p].id].token # Marshal(call[p].retTok)) =>
                \E q \in Callers \ {p} :
                    Writes(q) /\ call[q].id = call[p].id]_vars

\* p returns the stored credential it read while q's write has replaced it
C19_Witness ==
    \E p, q \in Callers :
        /\ call[p].pc = "done" /\ call[p].src = "stored"
        /\ call[q].pc = "done" /\ call[q].src = "refresh"
        /\ call[p].id = call[q].id
        /\ StoredToken(call[p].id) # Marshal(call[p].retTok)
        /\ StoredToken(call[p].id) = Marshal(call[q].retTok)

(***************************************************************************)
(* Properties of ListenAndServe and Shutdown.                              *)
(***************************************************************************)

\* the updates drawn from the channel so far, in the order drawn
Drawn ==
    [k \in 1..Len(hist) |-> hist[k].update]
        \o (IF loop = "handler" THEN <<cur.update>> ELSE <<>>)

\* C16 as stated: once Shutdown has been called the handler in flight runs
\* to completion, no update is drawn from the channel any more, and
\* ListenAndServe eventually returns.
C16_NoDrawAfterShutdown ==
    /\ [][(stopReq /\ loop = "handler") => loop' \in {"handler", "recv"}]_vars
    /\ [][stopReq => Len(updates') >= Len(updates)]_vars
    /\ stopReq ~> (loop = "returned")

\* C16: once Shutdown has been called the handler in flight runs to
\* completion and its update is recorded; the receiver closes the channel,
\* after which nothing more is put on it; the loop still draws and handles
\* every update that was put on the channel before it was closed, and then
\* ListenAndServe returns - it returns only after Shutdown.
C16_ShutdownDrains ==
    /\ [][(stopReq /\ loop = "handler" /\ loop' # "handler") =>
            /\ loop' = "recv"
            /\ Len(hist') = Len(hist) + 1
            /\ Last(hist').update = cur.update]_vars
    /\ [][chClosed => (chClosed' /\ sent' = sent)]_vars
    /\ [][stopReq => stopReq']_vars
    /\ [](loop = "returned" =>
            (stopReq /\ chClosed /\ Drawn = sent /\ Len(hist) = Len(sent)))
    /\ stopReq ~> (loop = "returned")

\* Shutdown has been called and the channel closed while a handler runs and
\* an update is still buffered
C16_Witness ==
    /\ stopReq
    /\ chClosed
    /\ loop = "handler"
    /\ updates # <<>>

\* C17: ListenAndServe returns only from its range statement, when the
\* channel is closed and empty; while the channel is open it has not
\* returned, whatever was drawn and whatever the handlers returned; once
\* returned it stays returned; and, every handler call returning, it
\* returns once the channel has been closed.
C17_ReturnsOnlyWhenClosed ==
    /\ [](~chClosed => loop # "returned")
    /\ [][(loop # "returned" /\ loop' = "returned") =>
            /\ loop = "recv"
            /\ cur = NoCall
            /\ chClosed
            /\ updates = <<>>
            /\ hist' = hist
            /\ logged' = logged]_vars
    /\ [][loop = "returned" => loop' = "returned"]_vars
    /\ chClosed ~> (loop = "returned")

\* ListenAndServe has returned after a handler failed and after an update
\* without a handler
C17_Witness ==
    /\ loop = "returned"
    /\ \E k \in 1..Len(hist) : Failed(hist[k])
    /\ \E k \in 1..Len(hist) : hist[k].handler = NoHandler

\* C18: the updates are drawn in the order they were put on the channel
\* (those drawn, followed by those buffered, are those sent), an update is
\* drawn only while no handler is running, and at most one handler call is
\* in progress: each handler has returned before the next update is drawn.
C18_OneAtATimeInOrder ==
    /\ [](Drawn \o updates = sent)
    /\ [](loop = "handler" <=> cur # NoCall)
    /\ [][Len(updates') < Len(updates) =>
            /\ loop = "recv"
            /\ cur = NoCall
            /\ updates' = Tail(updates)
            /\ Last(Drawn') = Head(updates)]_vars
    /\ [][hist' # hist =>
            /\ Len(hist') = Len(hist) + 1
            /\ \A k \in 1..Len(hist) : hist'[k] = hist[k]
            /\ loop = "handler" => Last(hist').update = cur.update]_vars

\* the first update has been handled and the second, a different one, is
\* in its handler
C18_Witness ==
    /\ Len(hist) = 1
    /\ hist[1].handler # NoHandler
    /\ loop = "handler"
    /\ cur.update # hist[1].update
    /\ sent = <<hist[1].update, cur.update>>
=============================================================================
